---- MODULE Spec2Model ----
(***************************************************************************)
(* The HTTP front of an S3-compatible object store: the list, upload and   *)
(* download handlers of App (src/unnamed/part_000) and the stand-alone     *)
(* list handler of src/main.go, which has the same body.                   *)
(*                                                                         *)
(* net/http runs every request in a goroutine of its own, so the model     *)
(* runs the handlers of the requests in Requests interleaved, one action   *)
(* per blocking step of a handler.  What a request owns (its form, its     *)
(* locals, its ResponseWriter) is one record of req; what the requests     *)
(* share is the process environment (env) and the working directory (fs).  *)
(* The object store and its SDK are the environment: each of their calls   *)
(* answers with any outcome its contract allows.  The store's content is   *)
(* fixed (Listing, StoredObject): one download request sees one object,    *)
(* and HeadObject reports the length of the bytes Download delivers.       *)
(* Each slot of Requests serves one request.                               *)
(***************************************************************************)
EXTENDS Integers, Sequences, FiniteSets, TLC

VARIABLES env, req, fs

vars == <<env, req, fs>>

(* ------------------------------ bounds -------------------------------- *)

\* longest object, uploaded file body and local file, in bytes
MaxLen == 1
\* most pages the provider delivers for one listing
MaxPages == 2
\* most objects on one page of a listing
MaxPageLen == 2

(* --------------------------- value domains ---------------------------- *)

Requests == {"r1", "r2"}

Buckets == {"b", "c"}

Keys == {"a.txt", "k"}

ZeroByte == "00"

Bytes == {ZeroByte, "41"}

SeqUpTo(S, n) == UNION {[1..k -> S] : k \in 0..n}

\* the objects of the store: under a.txt bucket b holds MaxLen bytes and bucket
\* c one byte less; under k bucket b holds one NUL byte and bucket c nothing
StoredObject(b, k) ==
    IF k = "a.txt"
    THEN [i \in 1..(IF b = "b" THEN MaxLen ELSE MaxLen - 1) |-> "41"]
    ELSE IF b = "b" THEN <<ZeroByte>> ELSE <<>>

ObjectA == [Key |-> "a.txt", Size |-> 1, StorageClass |-> "STANDARD"]

ObjectK == [Key |-> "k", Size |-> 0, StorageClass |-> "STANDARD"]

\* what ListObjects has to deliver for a bucket, as ListObjectsOutput.Contents
\* holds it: bucket b lists a key twice, bucket c is empty
Listing(b) == IF b = "b" THEN <<ObjectA, ObjectK, ObjectA>> ELSE <<>>

\* the downloadFile form values: absent is the empty string
FlagValues == {"yes", "", "Yes"}

Locations == {"https://s3/1", "https://s3/2"}

DeadlineExceeded == "RequestCanceled: context deadline exceeded"

ProviderErrors == {"AccessDenied", "NoSuchBucket"}

\* DURATION as the process finds it: unset, or one of these strings
DurationStrings ==
    { <<"1", "s">>, <<"-", "1", "s">>, <<"1">>, <<"1", "x">> }

EnvValues ==
    {[exists |-> FALSE, value |-> <<>>]}
        \cup {[exists |-> TRUE, value |-> s] : s \in DurationStrings}

(* ------------------- time.ParseDuration (line 64) --------------------- *)

Digits == {"0", "1"}

DigitVal(c) == IF c = "1" THEN 1 ELSE 0

\* the one unit of the alphabet that time's unit map knows, in seconds
UnitSeconds(u) == IF u = <<"s">> THEN 1 ELSE 0

KnownUnit(u) == u = <<"s">>

Quote(s) == <<"\"">> \o s \o <<"\"">>

RECURSIVE LeadingInt(_, _)
\* the leading decimal digits of s, as [v, rest]
LeadingInt(s, v) ==
    IF s # <<>> /\ Head(s) \in Digits
    THEN LeadingInt(Tail(s), (10 * v) + DigitVal(Head(s)))
    ELSE [v |-> v, rest |-> s]

RECURSIVE UnitLen(_)
\* how many characters up to the next digit: the unit's name
UnitLen(s) ==
    IF s = <<>> \/ Head(s) \in Digits THEN 0 ELSE 1 + UnitLen(Tail(s))

RECURSIVE ParseGroups(_, _, _)
\* the loop of ParseDuration over its <number><unit> groups
ParseGroups(s, acc, orig) ==
    IF s = <<>>
    THEN [ok |-> TRUE, d |-> acc, msg |-> <<>>]
    ELSE IF Head(s) \notin Digits
    THEN [ok |-> FALSE, d |-> 0,
          msg |-> <<"time: invalid duration ">> \o Quote(orig)]
    ELSE LET li == LeadingInt(s, 0)
             n == UnitLen(li.rest)
             u == SubSeq(li.rest, 1, n)
         IN  IF n = 0
             THEN [ok |-> FALSE, d |-> 0,
                   msg |-> <<"time: missing unit in duration ">> \o Quote(orig)]
             ELSE IF ~KnownUnit(u)
             THEN [ok |-> FALSE, d |-> 0,
                   msg |-> <<"time: unknown unit ">> \o Quote(u)
                               \o <<" in duration ">> \o Quote(orig)]
             ELSE ParseGroups(SubSeq(li.rest, n + 1, Len(li.rest)),
                              acc + (li.v * UnitSeconds(u)), orig)

ParseDuration(orig) ==
    LET neg == orig # <<>> /\ Head(orig) = "-"
        s == IF neg THEN Tail(orig) ELSE orig
    IN  IF s = <<"0">>
        THEN [ok |-> TRUE, d |-> 0, msg |-> <<>>]
        ELSE IF s = <<>>
        THEN [ok |-> FALSE, d |-> 0,
              msg |-> <<"time: invalid duration ">> \o Quote(orig)]
        ELSE LET r == ParseGroups(s, 0, orig)
             IN  IF r.ok /\ neg THEN [r EXCEPT !.d = 0 - r.d] ELSE r

(* ---------------- encoding/json Encoder.Encode (line 96) -------------- *)

SizeDigits == <<"0", "1", "2", "3", "4", "5", "6", "7", "8", "9">>

\* a size below ten in decimal
SizeStr(n) == SizeDigits[n + 1]

EncodeObject(o) == <<"{\"Key\":\"", o.Key, "\",\"Size\":", SizeStr(o.Size), "}">>

RECURSIVE EncodeElems(_)
EncodeElems(objs) ==
    IF objs = <<>> THEN <<>>
    ELSE IF Len(objs) = 1 THEN EncodeObject(objs[1])
    ELSE EncodeObject(objs[1]) \o <<",">> \o EncodeElems(Tail(objs))

\* the JSON text of a non-nil slice of s3Data, and the newline Encode adds
EncodeJSON(objs) == <<"[">> \o EncodeElems(objs) \o <<"]", "\n">>

(* -------------------- http.ResponseWriter (net/http) ------------------ *)

\* status 0: no header written yet
NoHeaders == [cd |-> <<>>, ct |-> <<>>]

WriteHeader(w, code) == IF w.status = 0 THEN [w EXCEPT !.status = code] ELSE w

\* Write sends the implicit 200 when no header was written before it
Write(w, chunks) ==
    [WriteHeader(w, 200) EXCEPT !.body = @ \o chunks]

SetHeader(w, name, value) ==
    IF w.status = 0 THEN [w EXCEPT !.hdr[name] = value] ELSE w

\* what the server does when the handler returns: an untouched writer answers 200
Finish(w) == WriteHeader(w, 200)

EmptyResponse == [status |-> 0, hdr |-> NoHeaders, body |-> <<>>]

(* ------------------------------- state -------------------------------- *)

NoForm == [present |-> FALSE, filename |-> "", data |-> <<>>,
           readErr |-> FALSE, readErrAt |-> 0]

\* the multipart file fields a client can send
Forms ==
    {NoForm}
        \cup {[present |-> TRUE, filename |-> f, data |-> d,
               readErr |-> FALSE, readErrAt |-> 0] :
                  f \in Keys, d \in SeqUpTo(Bytes, MaxLen)}
        \cup UNION {{[present |-> TRUE, filename |-> f, data |-> d,
                      readErr |-> TRUE, readErrAt |-> n] : n \in 0..Len(d)} :
                       f \in {"a.txt"}, d \in SeqUpTo(Bytes, MaxLen)}

\* a request slot with no request in it.  kind, pc: which handler runs and
\* where it stands.  bucket, file, flag, form: the request's form.  objects,
\* fileData, buf, size: the handler's locals.  w: its ResponseWriter.
\* calls: the provider calls it made.  log: what it printed.  The rest
\* records what the provider answered: listed (the objects it delivered),
\* pages, lastPage, err (the error of the step named by failed), object
\* (the bytes of the object a download asks for), location, trace (the
\* steps of the handler that ran), written and fileAfter (how many bytes
\* os.WriteFile wrote, and what the file held when it returned).
IdleRequest ==
    [kind |-> "idle", pc |-> "idle", bucket |-> "", file |-> "", flag |-> "",
     form |-> NoForm, deadline |-> FALSE,
     objects |-> <<>>, fileData |-> <<>>, buf |-> <<>>, size |-> 0,
     w |-> EmptyResponse, calls |-> <<>>, log |-> <<>>,
     listed |-> <<>>, pages |-> 0, lastPage |-> FALSE,
     failed |-> "", err |-> <<>>, object |-> <<>>, location |-> "",
     trace |-> <<>>, written |-> 0, fileAfter |-> <<>>]

NoFile == [exists |-> FALSE, data |-> <<>>]

Init ==
    /\ env \in EnvValues
    /\ req = [r \in Requests |-> IdleRequest]
    /\ fs = [k \in Keys |-> NoFile]

\* the handler of request r returns
Return(q) == [q EXCEPT !.pc = "done", !.w = Finish(@)]

Step(q, name) == [q EXCEPT !.trace = Append(@, name)]

Call(q, op, key, body) ==
    [q EXCEPT !.calls = Append(@, [op |-> op, bucket |-> q.bucket,
                                   key |-> key, body |-> body])]

(* ------------------------- listFilesInBucket -------------------------- *)

\* net/http hands a request with a bucket field to the list handler
StartList(r) ==
    /\ req[r].pc = "idle"
    /\ \E b \in Buckets :
          req' = [req EXCEPT ![r] = [IdleRequest EXCEPT
                     !.kind = "list", !.pc = "l_env", !.bucket = b]]
    /\ UNCHANGED <<env, fs>>

\* os.LookupEnv's second result, negated
durationMissing(e) == ~e.exists

\* parseFailed, with the error of time.ParseDuration dropped
parseFailedIgnored(p) == FALSE

\* err != nil after time.ParseDuration
parseFailed(p) == ~p.ok

\* DURATION is looked up and parsed; the context gets a deadline
ListConfig(r) ==
    /\ req[r].pc = "l_env"
    /\ LET q == Step(req[r], "env")
           p == ParseDuration(env.value)
       IN  req' = [req EXCEPT ![r] =
             IF durationMissing(env)
             THEN Return([q EXCEPT
                     !.failed = "env",
                     !.w = Write(WriteHeader(@, 400),
                                 <<"could not retrieve duration, %v">>)])
             ELSE IF parseFailed(p)
             THEN Return([q EXCEPT
                     !.failed = "env", !.err = p.msg,
                     !.w = Write(WriteHeader(@, 400),
                                 <<"could not parse provided duration, ">> \o p.msg)])
             ELSE [q EXCEPT !.pc = "l_call", !.deadline = p.d > 0]]
    /\ UNCHANGED <<env, fs>>

\* ListObjectsPagesWithContext is entered
ListCall(r) ==
    /\ req[r].pc = "l_call"
    /\ req' = [req EXCEPT ![r] =
                 [Call(Step(@, "list"), "ListObjectsPages", "", <<>>)
                     EXCEPT !.pc = "l_page"]]
    /\ UNCHANGED <<env, fs>>

s3Data(o) == [Key |-> o.Key, Size |-> o.Size]

RECURSIVE appendContentsUnique(_, _)
\* appendContents, but a key already in objects is skipped
appendContentsUnique(objects, contents) ==
    IF contents = <<>> THEN objects
    ELSE IF \E i \in 1..Len(objects) : objects[i].Key = Head(contents).Key
    THEN appendContentsUnique(objects, Tail(contents))
    ELSE appendContentsUnique(Append(objects, s3Data(Head(contents))), Tail(contents))

RECURSIVE appendContents(_, _)
\* the loop of the page callback over p.Contents
appendContents(objects, contents) ==
    IF contents = <<>> THEN objects
    ELSE appendContents(Append(objects, s3Data(Head(contents))), Tail(contents))

\* the page callback: the objects so far with the page's, and whether to go on
pageCallback(objects, contents) ==
    [objects |-> appendContents(objects, contents), more |-> TRUE]

\* the SDK delivers one page to the callback: the next n objects of the
\* listing (none: an empty page), marked last only when nothing is left;
\* paging ends with the last page, or when the callback returns false
ListPage(r) ==
    /\ req[r].pc = "l_page"
    /\ req[r].pages < MaxPages
    /\ LET q == req[r]
           all == Listing(q.bucket)
           left == Len(all) - Len(q.listed)
       IN  \E n \in 0..MaxPageLen, last \in BOOLEAN :
             /\ n <= left
             /\ left - n <= (MaxPages - q.pages - 1) * MaxPageLen
             /\ last => left = n
             /\ (q.pages + 1 = MaxPages) => last
             /\ LET contents == SubSeq(all, Len(q.listed) + 1, Len(q.listed) + n)
                    cb == pageCallback(q.objects, contents)
                IN  req' = [req EXCEPT ![r] = [q EXCEPT
                        !.objects = cb.objects,
                        !.listed = @ \o contents,
                        !.pages = @ + 1,
                        !.lastPage = last,
                        !.pc = IF last \/ ~cb.more THEN "l_ret" ELSE "l_page"]]
    /\ UNCHANGED <<env, fs>>

\* the errors the listing can end with: the deadline only when there is one
ListErrors(q) ==
    ProviderErrors \cup (IF q.deadline THEN {DeadlineExceeded} ELSE {})

\* the provider fails the listing, before the first page or after any page
ListFail(r) ==
    /\ req[r].pc = "l_page"
    /\ \E e \in ListErrors(req[r]) :
          req' = [req EXCEPT ![r] = [@ EXCEPT
                     !.failed = "list", !.err = <<e>>, !.pc = "l_ret"]]
    /\ UNCHANGED <<env, fs>>

\* listFailed, with the context's error taken for the end of the listing
listFailedUnlessDeadline(err) == err # <<>> /\ err # <<DeadlineExceeded>>

\* err != nil after the listing
listFailed(err) == err # <<>>

\* the listing returned: the error, or the objects as JSON
ListRespond(r) ==
    /\ req[r].pc = "l_ret"
    /\ LET q == req[r]
       IN  req' = [req EXCEPT ![r] =
             IF listFailed(q.err)
             THEN Return([q EXCEPT
                     !.w = Write(WriteHeader(@, 400),
                                 <<"failed to list objects for bucket, ",
                                   q.bucket, ", ">> \o q.err)])
             ELSE Return([Step(q, "encode") EXCEPT
                     !.w = Write(@, EncodeJSON(q.objects)),
                     !.log = Append(@, "successfully retrieved files")])]
    /\ UNCHANGED <<env, fs>>

(* ------------------------- uploadFileToBucket ------------------------- *)

\* net/http hands a request with a bucket field and a form to the upload handler
StartUpload(r) ==
    /\ req[r].pc = "idle"
    /\ \E b \in Buckets, f \in Forms :
          req' = [req EXCEPT ![r] = [IdleRequest EXCEPT
                     !.kind = "upload", !.pc = "u_form", !.bucket = b, !.form = f]]
    /\ UNCHANGED <<env, fs>>

\* err != nil after request.FormFile
formFileFailed(form) == ~form.present

\* request.FormFile("file")
UploadFormFile(r) ==
    /\ req[r].pc = "u_form"
    /\ LET q == [Step(req[r], "form") EXCEPT
                   !.failed = IF req[r].form.present THEN "" ELSE "form",
                   !.err = IF req[r].form.present THEN <<>>
                           ELSE <<"http: no such file">>]
       IN  req' = [req EXCEPT ![r] =
             IF formFileFailed(q.form)
             THEN Return([q EXCEPT
                     !.w = Write(WriteHeader(@, 400),
                                 <<"could not get file data from request: ">>
                                     \o q.err)])
             ELSE [q EXCEPT !.pc = "u_read"]]
    /\ UNCHANGED <<env, fs>>

RECURSIVE copyFrom(_, _, _)
\* io.Copy from the file into the buffer, from offset pos on
copyFrom(file, pos, buf) ==
    IF file.readErr /\ file.readErrAt = pos
    THEN [ok |-> FALSE, data |-> <<>>,
          err |-> <<"could not upload file. ", "unexpected EOF">>]
    ELSE IF pos = Len(file.data)
    THEN [ok |-> TRUE, data |-> buf, err |-> <<>>]
    ELSE copyFrom(file, pos + 1, Append(buf, file.data[pos + 1]))

\* uploadFile: the whole file body, or the read error
uploadFile(file) == copyFrom(file, 0, <<>>)

\* err != nil after uploadFile
readFailed(res) == ~res.ok

\* uploadFile(file) and its error branch
UploadRead(r) ==
    /\ req[r].pc = "u_read"
    /\ LET res == uploadFile(req[r].form)
           q == [Step(req[r], "read") EXCEPT
                   !.failed = IF res.ok THEN "" ELSE "read", !.err = res.err]
       IN  req' = [req EXCEPT ![r] =
             IF readFailed(res)
             THEN Return([q EXCEPT
                     !.w = Write(WriteHeader(@, 400),
                                 <<"could not upload file: ">> \o res.err)])
             ELSE [q EXCEPT !.pc = "u_call", !.fileData = res.data]]
    /\ UNCHANGED <<env, fs>>

\* UploadInput, with the bucket's name as the key
UploadInputKeyFromBucket(bucket, filename, fileData) ==
    [op |-> "Upload", bucket |-> bucket, key |-> bucket, body |-> fileData]

\* the s3manager.UploadInput the handler builds
UploadInput(bucket, filename, fileData) ==
    [op |-> "Upload", bucket |-> bucket, key |-> filename, body |-> fileData]

\* what uploader.Upload can answer: a location, or an error
UploadResults ==
    {[ok |-> TRUE, location |-> loc, err |-> <<>>] : loc \in Locations}
        \cup {[ok |-> FALSE, location |-> "", err |-> <<e>>] : e \in ProviderErrors}

\* uploadFailed, with the error of uploader.Upload dropped
uploadFailedIgnored(res) == FALSE

\* err != nil after uploader.Upload
uploadFailed(res) == ~res.ok

\* uploader.Upload and the response to its result
UploadCall(r) ==
    /\ req[r].pc = "u_call"
    /\ \E res \in UploadResults :
          LET q == [Step(req[r], "upload") EXCEPT
                      !.calls = Append(@, UploadInput(req[r].bucket,
                                                      req[r].form.filename,
                                                      req[r].fileData)),
                      !.failed = IF res.ok THEN "" ELSE "upload",
                      !.err = res.err,
                      !.location = res.location]
          IN  req' = [req EXCEPT ![r] =
                IF uploadFailed(res)
                THEN Return([q EXCEPT
                        !.w = Write(WriteHeader(@, 400),
                                    <<"failed to upload file to S3 bucket: ">>
                                        \o res.err)])
                ELSE Return([q EXCEPT
                        !.log = Append(@, "file uploaded to"),
                        !.w = Write(@, <<"file uploaded to S3 bucket: ",
                                         res.location>>)])]
    /\ UNCHANGED <<env, fs>>

(* ----------------------- downloadFileFromBucket ----------------------- *)

\* net/http hands a request with bucket, file and downloadFile fields to the
\* download handler
StartDownload(r) ==
    /\ req[r].pc = "idle"
    /\ \E b \in Buckets, k \in Keys, f \in FlagValues :
          req' = [req EXCEPT ![r] = [IdleRequest EXCEPT
                     !.kind = "download", !.pc = "d_head",
                     !.bucket = b, !.file = k, !.flag = f]]
    /\ UNCHANGED <<env, fs>>

\* what HeadObject can answer for the object the request names: its length,
\* or an error
HeadResults(b, k) ==
    {[ok |-> TRUE, object |-> StoredObject(b, k),
      size |-> Len(StoredObject(b, k)), err |-> <<>>]}
        \cup {[ok |-> FALSE, object |-> <<>>, size |-> 0, err |-> <<"NotFound">>]}

\* headFailed, with the return after the printed error missing
headFailedGoesOn(res) == FALSE

\* err != nil after HeadObject
headFailed(res) == ~res.ok

\* make([]byte, n)
Zeros(n) == [i \in 1..n |-> ZeroByte]

\* HeadObject, its error branch, and the buffer of the object's length
DownloadHead(r) ==
    /\ req[r].pc = "d_head"
    /\ \E res \in HeadResults(req[r].bucket, req[r].file) :
          LET q == [Call(Step(req[r], "head"), "HeadObject", req[r].file, <<>>)
                      EXCEPT !.log = Append(@, "Attempting to download"),
                             !.failed = IF res.ok THEN "" ELSE "head",
                             !.err = res.err,
                             !.object = res.object]
          IN  req' = [req EXCEPT ![r] =
                IF headFailed(res)
                THEN Return([q EXCEPT !.log = @ \o res.err])
                ELSE [q EXCEPT
                        !.log = Append(@, "File size is"),
                        !.size = res.size,
                        !.buf = Zeros(res.size),
                        !.pc = "d_get"]]
    /\ UNCHANGED <<env, fs>>

\* p written at offset 0 over cur: what is beyond p stays
WriteAt(cur, p) ==
    [i \in 1..(IF Len(cur) > Len(p) THEN Len(cur) ELSE Len(p)) |->
        IF i <= Len(p) THEN p[i] ELSE cur[i]]

\* what downloader.Download can do: deliver the object, or fail after
\* having written the first n bytes of it
GetResults(object) ==
    {[ok |-> TRUE, n |-> Len(object), err |-> <<>>]}
        \cup {[ok |-> FALSE, n |-> n, err |-> <<"RequestError">>] :
                 n \in 0..Len(object)}

\* persist, with any non-empty downloadFile taken for yes
persistAnyValue(downloadFile) == downloadFile # ""

\* downloadFile == "yes"
persist(downloadFile) == downloadFile = "yes"

\* downloader.Download into the buffer; its error is printed and the
\* handler goes on
DownloadGet(r) ==
    /\ req[r].pc = "d_get"
    /\ \E res \in GetResults(req[r].object) :
          LET q == Call(Step(req[r], "get"), "GetObject", req[r].file, <<>>)
          IN  req' = [req EXCEPT ![r] = [q EXCEPT
                  !.buf = WriteAt(@, SubSeq(q.object, 1, res.n)),
                  !.failed = IF res.ok THEN "" ELSE "get",
                  !.err = res.err,
                  !.log = (IF res.ok THEN @
                           ELSE Append(@, "Could not download file"))
                              \o <<"Downloaded file. Size">>,
                  !.pc = IF persist(q.flag) THEN "d_open" ELSE "d_stream"]]
    /\ UNCHANGED <<env, fs>>

\* os.WriteFile, first half: the file is created or truncated (O_TRUNC), or
\* the open fails and the handler prints the error and returns
DownloadOpen(r) ==
    /\ req[r].pc = "d_open"
    /\ LET q == Step(req[r], "open")
       IN  \/ /\ fs' = [fs EXCEPT ![q.file] = [exists |-> TRUE, data |-> <<>>]]
              /\ req' = [req EXCEPT ![r] = [q EXCEPT !.pc = "d_write"]]
           \/ /\ fs' = fs
              /\ req' = [req EXCEPT ![r] = Return([q EXCEPT
                           !.failed = "open",
                           !.log = Append(@, "Could not write file")])]
    /\ UNCHANGED env

\* os.WriteFile, second half: the buffer is written at offset 0 of the open
\* file, wholly or (an error) in part; the handler prints which and returns
DownloadWrite(r) ==
    /\ req[r].pc = "d_write"
    /\ \E n \in 0..Len(req[r].buf) :
          LET q == Step(req[r], "write")
              whole == n = Len(q.buf)
          IN  /\ fs' = [fs EXCEPT ![q.file].data = WriteAt(@, SubSeq(q.buf, 1, n))]
              /\ req' = [req EXCEPT ![r] = Return([q EXCEPT
                           !.written = n,
                           !.fileAfter = fs'[q.file].data,
                           !.failed = IF whole THEN @ ELSE "write",
                           !.log = Append(@, IF whole THEN "Wrote file"
                                             ELSE "Could not write file")])]
    /\ UNCHANGED env

\* mime.FormatMediaType("attachment", {"filename": file}) for a key that is a token
contentDisposition(file) == <<"attachment", "; filename=", file>>

\* http.DetectContentType: an empty body and text are text, a NUL makes it binary
DetectContentType(buf) ==
    IF \E i \in 1..Len(buf) : buf[i] = ZeroByte
    THEN <<"application/octet-stream">>
    ELSE <<"text/plain; charset=utf-8">>

\* the buffer goes out as the response body, with its two headers
DownloadStream(r) ==
    /\ req[r].pc = "d_stream"
    /\ LET q == Step(req[r], "stream")
       IN  req' = [req EXCEPT ![r] = Return([q EXCEPT
                     !.w = Write(SetHeader(SetHeader(@, "cd", contentDisposition(q.file)),
                                           "ct", DetectContentType(q.buf)),
                                 q.buf),
                     !.log = Append(@, "Downloaded file.")])]
    /\ UNCHANGED <<env, fs>>

(* ----------------------------- the server ----------------------------- *)

Next ==
    \E r \in Requests :
        \/ StartList(r)
        \/ ListConfig(r)
        \/ ListCall(r)
        \/ ListPage(r)
        \/ ListFail(r)
        \/ ListRespond(r)
        \/ StartUpload(r)
        \/ UploadFormFile(r)
        \/ UploadRead(r)
        \/ UploadCall(r)
        \/ StartDownload(r)
        \/ DownloadHead(r)
        \/ DownloadGet(r)
        \/ DownloadOpen(r)
        \/ DownloadWrite(r)
        \/ DownloadStream(r)

Spec == Init /\ [][Next]_vars

(* ------------------------------ claims -------------------------------- *)

Done(r, kind) == req[r].kind = kind /\ req[r].pc = "done"

Ran(r, step) == \E i \in 1..Len(req[r].trace) : req[r].trace[i] = step

\* the size a decimal digit stands for
ParseSize(c) == CHOOSE n \in 0..9 : SizeStr(n) = c

RECURSIVE DecodeElems(_)
\* the elements of a JSON array of {Key,Size} objects, read back from its text
DecodeElems(s) ==
    IF Len(s) < 5 \/ s[1] # "{\"Key\":\"" \/ s[3] # "\",\"Size\":"
          \/ s[4] \notin {SizeStr(n) : n \in 0..9} \/ s[5] # "}"
    THEN [ok |-> FALSE, v |-> <<>>]
    ELSE LET o == [Key |-> s[2], Size |-> ParseSize(s[4])]
         IN  IF Len(s) = 5 THEN [ok |-> TRUE, v |-> <<o>>]
             ELSE IF s[6] # "," THEN [ok |-> FALSE, v |-> <<>>]
             ELSE LET rest == DecodeElems(SubSeq(s, 7, Len(s)))
                  IN  [ok |-> rest.ok, v |-> <<o>> \o rest.v]

\* a response body read as a JSON array of {Key,Size} objects
DecodeJSON(body) ==
    IF Len(body) < 3 \/ body[1] # "[" \/ body[Len(body) - 1] # "]"
          \/ body[Len(body)] # "\n"
    THEN [ok |-> FALSE, v |-> <<>>]
    ELSE IF Len(body) = 3 THEN [ok |-> TRUE, v |-> <<>>]
    ELSE DecodeElems(SubSeq(body, 2, Len(body) - 2))

Descriptors(contents) == [i \in 1..Len(contents) |->
                             [Key |-> contents[i].Key, Size |-> contents[i].Size]]

\* C1: a listing that succeeds answers 200 with a JSON array that reads back
\* as the descriptors of all the objects the provider delivered for the
\* bucket, one per object, in the provider's order, duplicates kept; the
\* paging ran to the provider's last page.
C1_ListReturnsAllInOrder ==
    \A r \in Requests :
        (Done(r, "list") /\ Ran(r, "list") /\ req[r].failed = "") =>
            /\ req[r].w.status = 200
            /\ DecodeJSON(req[r].w.body).ok
            /\ DecodeJSON(req[r].w.body).v = Descriptors(req[r].listed)
            /\ req[r].listed = Listing(req[r].bucket)
            /\ req[r].lastPage

\* a listing of three objects, one key twice, that came in two pages or more
C1_Witness ==
    \E r \in Requests :
        /\ Done(r, "list") /\ req[r].failed = ""
        /\ Len(req[r].listed) = 3 /\ req[r].pages >= 2
        /\ Len(DecodeJSON(req[r].w.body).v) = 3

DurationUsable == env.exists /\ ParseDuration(env.value).ok

\* C2: with DURATION unset or not a duration, a list request whose handler
\* has looked it up is over with status 400, has made no provider call and
\* fetched no page, and its body is no JSON array; when DURATION is set, the
\* body ends with the parse error.
C2_BadDurationIs400WithoutProviderCall ==
    \A r \in Requests :
        (req[r].kind = "list" /\ Ran(r, "env") /\ ~DurationUsable) =>
            /\ req[r].pc = "done"
            /\ req[r].w.status = 400
            /\ req[r].calls = <<>>
            /\ req[r].pages = 0 /\ req[r].objects = <<>>
            /\ ~DecodeJSON(req[r].w.body).ok
            /\ ~env.exists => req[r].w.body = <<"could not retrieve duration, %v">>
            /\ env.exists =>
                  req[r].w.body = <<"could not parse provided duration, ">>
                                      \o ParseDuration(env.value).msg

\* one list request refused for a DURATION that is set and has an unknown unit
C2_Witness ==
    \E r \in Requests :
        /\ Done(r, "list") /\ env.exists /\ ~ParseDuration(env.value).ok
        /\ req[r].w.status = 400
        /\ req[r].w.body[2] = "time: unknown unit "

\* C3: once the provider has failed a listing, the handler only returns:
\* status 400, a text body that ends with the provider's error, no JSON
\* array, none of the accumulated descriptors, and one provider call in all.
C3_ListFailureIs400NoRetry ==
    \A r \in Requests :
        (req[r].kind = "list" /\ req[r].failed = "list") =>
            /\ req[r].pc \in {"l_ret", "done"}
            /\ Len(req[r].calls) = 1
            /\ req[r].pc = "done" =>
                  /\ req[r].w.status = 400
                  /\ req[r].w.body = <<"failed to list objects for bucket, ",
                                       req[r].bucket, ", ">> \o req[r].err
                  /\ ~DecodeJSON(req[r].w.body).ok

\* a listing that timed out after the provider had delivered objects
C3_Witness ==
    \E r \in Requests :
        /\ Done(r, "list") /\ req[r].failed = "list"
        /\ req[r].err = <<DeadlineExceeded>>
        /\ req[r].objects # <<>> /\ req[r].pages >= 1

\* C4: an upload whose file field is there and readable makes one provider
\* call, with the request's bucket, the file's name as the key and the
\* file's bytes as the body; when the provider accepts it, the answer is
\* 200 with the success text and the provider's location.
C4_UploadPassesFileThrough ==
    \A r \in Requests :
        (Done(r, "upload") /\ req[r].form.present /\ ~req[r].form.readErr) =>
            /\ req[r].calls = <<[op |-> "Upload", bucket |-> req[r].bucket,
                                 key |-> req[r].form.filename,
                                 body |-> req[r].form.data]>>
            /\ req[r].failed = "" =>
                  /\ req[r].w.status = 200
                  /\ req[r].w.body = <<"file uploaded to S3 bucket: ",
                                       req[r].location>>

\* an accepted upload of a non-empty file named k into bucket c
C4_Witness ==
    \E r \in Requests :
        /\ Done(r, "upload") /\ req[r].failed = "" /\ req[r].bucket = "c"
        /\ req[r].form.filename = "k" /\ Len(req[r].form.data) = MaxLen
        /\ req[r].location \in Locations
        /\ Len(req[r].calls) = 1

UploadFailureText(step) ==
    CASE step = "form" -> "could not get file data from request: "
      [] step = "read" -> "could not upload file: "
      [] step = "upload" -> "failed to upload file to S3 bucket: "

\* the step of an upload the environment failed: no file field, a read
\* error of the file, or the provider's refusal
UploadFailure(r) ==
    IF ~req[r].form.present THEN "form"
    ELSE IF req[r].form.readErr THEN "read"
    ELSE IF Ran(r, "upload") /\ req[r].location = "" THEN "upload"
    ELSE ""

\* C5: a failed upload answers 400 with the text of the step that failed and
\* never the success text; without a file field or with a read error no
\* provider call was made, and after the provider's error exactly one.
C5_UploadFailureIs400 ==
    \A r \in Requests :
        (Done(r, "upload") /\ UploadFailure(r) # "") =>
            /\ req[r].w.status = 400
            /\ req[r].w.body = <<UploadFailureText(UploadFailure(r))>> \o req[r].err
            /\ req[r].w.body[1] # "file uploaded to S3 bucket: "
            /\ UploadFailure(r) \in {"form", "read"} => req[r].calls = <<>>
            /\ UploadFailure(r) = "upload" => Len(req[r].calls) = 1

\* one upload stopped by a read error in mid-file beside one the provider refused
C5_Witness ==
    \E r1, r2 \in Requests :
        /\ Done(r1, "upload") /\ UploadFailure(r1) = "read"
        /\ req[r1].form.readErrAt = Len(req[r1].form.data) /\ req[r1].form.data # <<>>
        /\ Done(r2, "upload") /\ UploadFailure(r2) = "upload"
        /\ req[r2].w.status = 400

Issued(r, op) == \E i \in 1..Len(req[r].calls) : req[r].calls[i].op = op

\* the probe of download request r has failed
ProbeFailed(r) ==
    /\ req[r].kind = "download" /\ Ran(r, "head")
    /\ req[r].failed = "head"

\* C6, as the specification states it: after a failed probe the handler goes
\* on, and the request ends with the full-object download issued.
C6_ProbeFailureStillDownloads ==
    \A r \in Requests :
        (ProbeFailed(r) /\ req[r].pc = "done") => Issued(r, "GetObject")

\* C6, amended: a failed probe is printed and ends the request there: no
\* full-object download is issued, no local file is written, and the
\* response is an empty 200 without the download's headers.
C6_ProbeFailureReturns ==
    \A r \in Requests :
        ProbeFailed(r) =>
            /\ req[r].pc = "done"
            /\ req[r].log = <<"Attempting to download">> \o req[r].err
            /\ ~Issued(r, "GetObject") /\ Len(req[r].calls) = 1
            /\ req[r].trace = <<"head">>
            /\ req[r].w = [status |-> 200, hdr |-> NoHeaders, body |-> <<>>]

\* a download with downloadFile=yes that ended at its failed probe
C6_Witness ==
    \E r \in Requests :
        /\ ProbeFailed(r) /\ req[r].pc = "done"
        /\ req[r].flag = "yes" /\ req[r].err = <<"NotFound">>

\* the probe and the fetch of download request r succeeded, and it is over
Fetched(r) ==
    /\ Done(r, "download") /\ Ran(r, "get")
    /\ req[r].failed \in {"", "open", "write"}

\* C7: a download with downloadFile=yes whose probe and fetch succeeded
\* leaves no body and no header in the response, whatever the local write
\* did, and when os.WriteFile returned without error the file named after
\* the key held the object's bytes.
C7_PersistWritesObjectToFile ==
    \A r \in Requests :
        (Fetched(r) /\ req[r].flag = "yes") =>
            /\ req[r].w = [status |-> 200, hdr |-> NoHeaders, body |-> <<>>]
            /\ Ran(r, "open")
            /\ req[r].failed = "" =>
                  /\ fs[req[r].file].exists
                  /\ req[r].fileAfter = req[r].object

\* C8: a download with downloadFile other than yes whose probe and fetch
\* succeeded answers with the object's bytes as the body, as many as the
\* probe reported, with Content-Disposition: attachment; filename=<key>,
\* and runs no step of os.WriteFile.
C8_StreamSendsObject ==
    \A r \in Requests :
        (Fetched(r) /\ req[r].flag # "yes") =>
            /\ req[r].failed = ""
            /\ req[r].w.status = 200
            /\ req[r].w.body = req[r].object
            /\ Len(req[r].w.body) = req[r].size
            /\ req[r].w.hdr.cd = <<"attachment", "; filename=", req[r].file>>
            /\ ~Ran(r, "open") /\ ~Ran(r, "write")
            /\ req[r].fileAfter = <<>> /\ req[r].written = 0

\* a streamed download of a non-empty object, downloadFile being "Yes"
C8_Witness ==
    \E r \in Requests :
        /\ Fetched(r) /\ req[r].flag = "Yes"
        /\ req[r].object # <<>> /\ req[r].w.body = req[r].object
        /\ req[r].file = "k"

\* the steps whose failure the handlers detect
DetectedFailures == {"env", "form", "read", "head", "list", "upload", "get"}

\* C9: after a failing step no later step of the handler runs; after a
\* failed full-object download no bytes and no header are sent and no local
\* file is written.
C9_FailureEndsRequest ==
    \A r \in Requests :
        (req[r].failed \in DetectedFailures) =>
            /\ req[r].trace[Len(req[r].trace)] = req[r].failed
            /\ req[r].failed = "get" =>
                  /\ req[r].w.body = <<>>
                  /\ req[r].w.hdr = NoHeaders
                  /\ ~Ran(r, "open") /\ ~Ran(r, "stream")

\* what os.WriteFile leaves in the file when request r runs alone
FileWhenAlone(r) == SubSeq(req[r].buf, 1, req[r].written)

\* C10: requests running side by side do not interfere: the local file a
\* download wrote holds, when its os.WriteFile returns, what it holds when
\* the request runs alone against the same provider answers.
C10_RequestsDoNotInterfere ==
    \A r \in Requests :
        (Done(r, "download") /\ Ran(r, "write")) =>
            req[r].fileAfter = FileWhenAlone(r)

====
